---- MODULE Spec2Model ----
(***************************************************************************)
(* A model of pyc.py, the Python-subset to C compiler of megadrive-python. *)
(*                                                                         *)
(* The compiler's input is a list of parsed modules (ast trees); the model *)
(* represents an ast node as a record whose field t is the node's class.   *)
(* Emitted C text is built as real strings, the way the source formats it. *)
(* An exception is a record: its class, the pieces of its message (with '  *)
(* for the backquotes of the source) and the node whose lineno and        *)
(* col_offset the message is prefixed with.                                *)
(***************************************************************************)
EXTENDS Integers, Sequences, FiniteSets, TLC

VARIABLES
    input_modules,   \* main: args.input_modules, with the parsed file of each
    mi,              \* main: index of the module being compiled
    pc,              \* position of the single thread of control
    src,             \* main: the project source accumulated so far
    msrc,            \* ModuleCompiler.compile: its local src
    globals,         \* ModuleCompiler.globals of the current module
    func_compilers,  \* ModuleCompiler.compile: the FunctionCompilers (node, locals)
    fi,              \* index of the FunctionCompiler being run
    si,              \* FunctionCompiler.compile: index of the next body node
    fsrc,            \* FunctionCompiler.compile: its local src
    stdout,          \* what main has printed
    exc              \* the exception that ended the run, or NoExc

vars == <<input_modules, mi, pc, src, msrc, globals, func_compilers, fi, si,
          fsrc, stdout, exc>>

-----------------------------------------------------------------------------
(* Bounds of the input space *)

MaxModules == 2
MaxBody == 2

-----------------------------------------------------------------------------
(* Program constants, pyc.py lines 12-36 *)

PYTYPE_INT == "int"
CTYPE_INT == "int32_t"
PYTYPE_STR == "str"
CTYPE_STR == "char*"
PYTYPE_NONE == "NoneType"
CTYPE_NONE == "void"
MOD_PREFIX == "PYMOD_"
MOD_INIT_SUFFIX == "_INIT"
DOT == "_DOT_"

\* Python's None where a type name or a C type is expected
PyNone == "None"

BUILTIN_TYPE_NAMES == {PYTYPE_INT, PYTYPE_STR, PYTYPE_NONE}

BUILTIN_TYPES(pytype) ==
    CASE pytype = PYTYPE_INT -> CTYPE_INT
      [] pytype = PYTYPE_STR -> CTYPE_STR
      [] pytype = PYTYPE_NONE -> CTYPE_NONE

-----------------------------------------------------------------------------
(* ast nodes *)

NoneNode == [t |-> "None"]
\* a number literal: n is its integer part, frac its fractional digits (-1 when
\* the literal is an int)
Num(n) == [t |-> "Num", n |-> n, frac |-> -1]
Float(n, frac) == [t |-> "Num", n |-> n, frac |-> frac]
Str(s) == [t |-> "Str", s |-> s]
Name(id) == [t |-> "Name", id |-> id]
NameConstant(c) == [t |-> "NameConstant", const |-> c]
Attribute(value, attr) == [t |-> "Attribute", value |-> value, attr |-> attr]
Call(func, args) == [t |-> "Call", func |-> func, args |-> args]
Compare(left, ops, comparators) ==
    [t |-> "Compare", left |-> left, ops |-> ops, comparators |-> comparators]
CmpOp(op) == [t |-> op]
Pass == [t |-> "Pass"]
Expr(value) == [t |-> "Expr", value |-> value]
Return(value) == [t |-> "Return", value |-> value]
Import(names) == [t |-> "Import", names |-> names]
Alias(name, asname) == [t |-> "alias", name |-> name, asname |-> asname]
Assign(targets, value) == [t |-> "Assign", targets |-> targets, value |-> value]
AnnAssign(target, annotation, value) ==
    [t |-> "AnnAssign", target |-> target, annotation |-> annotation,
     value |-> value]
If(test, body, orelse) ==
    [t |-> "If", test |-> test, body |-> body, orelse |-> orelse]
While(test, body) == [t |-> "While", test |-> test, body |-> body]
Arg(arg, annotation) == [t |-> "arg", arg |-> arg, annotation |-> annotation]
FunctionDef(name, args, returns, body) ==
    [t |-> "FunctionDef", name |-> name, args |-> args, returns |-> returns,
     body |-> body, decorator_list |-> <<>>]
Module(body) == [t |-> "Module", body |-> body]
\* a python list handed over where a node is expected
List(elts) == [t |-> "list", elts |-> elts]

\* ast classes whose instances carry no lineno/col_offset
Unpositioned ==
    {"list", "alias", "Eq", "NotEq", "Lt", "LtE", "Gt", "GtE", "None"}

\* BUILTIN_FUNCS, pyc.py lines 12-14: 'print' is def printf(s: str): pass
BUILTIN_FUNC_NAMES == {"print"}
BUILTIN_FUNCS(name) ==
    FunctionDef("printf", <<Arg("s", Name("str"))>>, NoneNode, <<Pass>>)

-----------------------------------------------------------------------------
(* Text helpers *)

RECURSIVE Join(_, _)
Join(parts, sep) ==
    IF Len(parts) = 0 THEN ""
    ELSE IF Len(parts) = 1 THEN parts[1]
    ELSE parts[1] \o sep \o Join(Tail(parts), sep)

\* ord() of the characters string literals are made of
Ord(c) ==
    CASE c = "a" -> 97
      [] c = "b" -> 98
      [] c = "c" -> 99
      [] c = "d" -> 100
      [] c = "\"" -> 34
      [] c = "NUL" -> 0

HexDigit(d) ==
    CASE d < 10 -> ToString(d)
      [] d = 10 -> "a"
      [] d = 11 -> "b"
      [] d = 12 -> "c"
      [] d = 13 -> "d"
      [] d = 14 -> "e"
      [] d = 15 -> "f"

RECURSIVE HexDigits(_)
HexDigits(n) ==
    IF n < 16 THEN HexDigit(n) ELSE HexDigits(n \div 16) \o HexDigit(n % 16)

\* python's hex()
Hex(n) == "0x" \o HexDigits(n)

\* s.replace('"', '\\"')
RECURSIVE EscapeQuotes(_)
EscapeQuotes(s) ==
    IF Len(s) = 0 THEN ""
    ELSE (IF s[1] = "\"" THEN "\\\"" ELSE s[1]) \o EscapeQuotes(Tail(s))

\* str(node.n) of a Num node
NumStr(node) ==
    IF node.frac < 0 THEN ToString(node.n)
    ELSE ToString(node.n) \o "." \o ToString(node.frac)

\* a python str object, where it is compared with other objects
PyStr(s) == [t |-> "str", v |-> s]

\* '{}'.format(node): the default repr of an ast object
Repr(node) == "<_ast." \o node.t \o " object>"

\* ast.dump(node), abbreviated to the class of the node
Dump(node) == node.t \o "(...)"

-----------------------------------------------------------------------------
(* Exceptions *)

NoExc == [cls |-> "none"]

Exception(cls, msg) ==
    [cls |-> cls, msg |-> msg, positioned |-> FALSE, node |-> NoneNode,
     file |-> ""]

\* CompileError.__init__: the message is prefixed with node.lineno and
\* node.col_offset unless node is the Module; reading lineno off an object
\* that has none is an AttributeError.
CompileError(msg, node) ==
    IF node.t = "Module"
    THEN [cls |-> "CompileError", msg |-> msg, positioned |-> FALSE,
          node |-> NoneNode, file |-> ""]
    ELSE IF node.t \in Unpositioned
    THEN Exception("AttributeError",
                   <<"'", node.t, "' object has no attribute 'lineno'">>)
    ELSE [cls |-> "CompileError", msg |-> msg, positioned |-> TRUE,
          node |-> node, file |-> ""]

\* LookupError and its subclasses, as an except LookupError clause sees them
IsLookupError(e) == e.cls \in {"LookupError", "KeyError"}

-----------------------------------------------------------------------------
(* FunctionCompiler: name resolution and types.  c is the compiler's        *)
(* (module_name, module_compiler.globals, node); L is its locals.           *)

Ctx(module_name, g, node) ==
    [module_name |-> module_name, globals |-> g, node |-> node]

Resolved(cname, decl) == [exc |-> NoExc, cname |-> cname, decl |-> decl]
Unresolved(e) == [exc |-> e, cname |-> "", decl |-> NoneNode]

\* the search of _load_name, pyc.py lines 250-265
LookupScopes(c, L, lookup_name) ==
    IF lookup_name \in DOMAIN L
    THEN Resolved(lookup_name, L[lookup_name])
    ELSE IF lookup_name \in DOMAIN c.globals
    THEN Resolved(MOD_PREFIX \o c.module_name \o DOT \o lookup_name,
                  c.globals[lookup_name])
    ELSE IF lookup_name \in BUILTIN_FUNC_NAMES
    THEN Resolved(BUILTIN_FUNCS(lookup_name).name, BUILTIN_FUNCS(lookup_name))
    ELSE Unresolved(Exception("LookupError",
                              <<"no such var '", lookup_name, "'">>))

\* FunctionCompiler._load_name
LoadName(c, L, node) ==
    IF node.t = "FunctionDef" THEN LookupScopes(c, L, node.name)
    ELSE IF node.t = "Name" THEN LookupScopes(c, L, node.id)
    ELSE Unresolved(CompileError(
             <<"unable to resolve reference from node ", Repr(node)>>, node))

Typed(ty) == [exc |-> NoExc, ty |-> ty]
Untyped(e) == [exc |-> e, ty |-> PyNone]

\* FunctionCompiler._pytype
RECURSIVE PyType(_, _, _)
PyType(c, L, node) ==
    IF node.t = "None" THEN Typed(PyNone)
    ELSE IF node.t = "Module" THEN Typed(PYTYPE_INT)
    ELSE IF node.t = "Call" THEN PyType(c, L, node.func)
    ELSE IF node.t = "FunctionDef" THEN PyType(c, L, node.returns)
    ELSE IF node.t = "AnnAssign" THEN PyType(c, L, node.annotation)
    ELSE IF node.t = "Num" THEN Typed(PYTYPE_INT)
    ELSE IF node.t = "Str" THEN Typed(PYTYPE_STR)
    ELSE IF node.t = "Name" THEN
        IF node.id \in BUILTIN_TYPE_NAMES THEN Typed(node.id)
        ELSE LET r == LoadName(c, L, node)
             IN  IF r.exc # NoExc THEN Untyped(r.exc)
                 ELSE PyType(c, L, r.decl)
    ELSE IF node.t = "NameConstant" /\ node.const = "None"
    THEN Typed(BUILTIN_TYPES(PYTYPE_NONE))
    ELSE Untyped(Exception("LookupError",
             <<"BUG: cannot determine python type for ", Dump(node)>>))

\* FunctionCompiler._ctype
CType(c, L, node) ==
    LET p == PyType(c, L, node)
    IN  IF p.exc # NoExc THEN p
        ELSE IF p.ty \in BUILTIN_TYPE_NAMES THEN Typed(BUILTIN_TYPES(p.ty))
        ELSE Untyped(Exception("KeyError", <<p.ty>>))

-----------------------------------------------------------------------------
(* FunctionCompiler: the visitors.  A visit returns a str or None, or       *)
(* raises; it may add to the locals.                                        *)

Ok(val, L) == [exc |-> NoExc, none |-> FALSE, val |-> val, locals |-> L]
OkNone(L) == [exc |-> NoExc, none |-> TRUE, val |-> "", locals |-> L]
Raise(e, L) == [exc |-> e, none |-> TRUE, val |-> "", locals |-> L]

\* str + None, str += None, ' '.join of a list holding None
StrTypeError == Exception("TypeError", <<"must be str, not NoneType">>)

\* FunctionCompiler.generic_visit; ast.dump rejects what is not a node
GenericVisit(node, L) ==
    IF node.t = "None"
    THEN Raise(Exception("TypeError", <<"expected AST, got 'NoneType'">>), L)
    ELSE Raise(CompileError(<<"Unsupported ast node: ", Dump(node)>>, node), L)

\* visit_Str: a hex byte array with a null termination
VisitStr(node, L) ==
    Ok("(const char[]){"
       \o Join([i \in 1..(Len(node.s) + 1) |->
                   Hex(Ord(Append(node.s, "NUL")[i]))], ", ")
       \o "}", L)

VisitNum(node, L) == Ok(NumStr(node), L)

VisitName(c, L, node) ==
    LET r == LoadName(c, L, node)
    IN  IF r.exc # NoExc THEN Raise(r.exc, L) ELSE Ok(r.cname, L)

VisitNameConstant(node, L) ==
    IF node.const = "True" THEN Ok("true", L)
    ELSE IF node.const = "False" THEN Ok("false", L)
    ELSE Raise(CompileError(
             <<"could not compile constant '", Dump(node), "'">>, node), L)

\* visit_Eq, visit_Gt, visit_Lt; the other operators have no visitor
VisitCmpOp(op, L) ==
    IF op.t = "Eq" THEN Ok("==", L)
    ELSE IF op.t = "Gt" THEN Ok(">", L)
    ELSE IF op.t = "Lt" THEN Ok("<", L)
    ELSE GenericVisit(op, L)

VisitImport(node, L) ==
    IF Len(node.names) = 0 THEN OkNone(L)
    ELSE Ok("#include \"" \o node.names[1].name \o ".h\"\n", L)

VisitPass(node, L) == OkNone(L)

VisitFunctionDef(c, L, node) ==
    IF c.node.t # "Module"
    THEN Raise(CompileError(<<"Inner functions are not supported">>, node), L)
    ELSE OkNone(L)

\* the type checks of visit_Compare over the comparators, in order
RECURSIVE CheckComparators(_, _, _, _, _)
CheckComparators(c, L, node, left_type, i) ==
    IF i > Len(node.comparators) THEN NoExc
    ELSE LET cmp == node.comparators[i]
             val == LoadName(c, L, cmp)
             right == IF cmp.t = "Name"
                      THEN (IF val.exc # NoExc THEN Untyped(val.exc)
                            ELSE CType(c, L, val.decl))
                      ELSE CType(c, L, cmp)
         IN  IF right.exc # NoExc THEN right.exc
             ELSE IF left_type # right.ty
             THEN CompileError(<<"mismatched types in comparison">>, node.left)
             ELSE CheckComparators(c, L, node, left_type, i + 1)

\* visit_Assign
VisitAssign(c, L, node) ==
    IF Len(node.targets) > 1
    THEN Raise(CompileError(
             <<"Use of unsupported feature: multiple assignment">>,
             List(node.targets)), L)
    ELSE LET target == node.targets[1] IN
    IF target.t = "Attribute"
    THEN Raise(CompileError(
             <<"Use of unsupported feature: attribute assignment">>, node), L)
    ELSE IF target.id \notin DOMAIN L
    THEN Raise(CompileError(
             <<"Cannot assign to undeclared local var '", target.id, "'">>,
             node), L)
    ELSE IF node.value.t = "Num" THEN
        IF L[target.id] # PyStr(PYTYPE_INT)
        THEN Raise(CompileError(
                 <<"assignment of ", "int", " to incompatible ",
                   Repr(L[target.id]), " var ", target.id>>, node.value), L)
        ELSE IF node.value.frac >= 0
        THEN Raise(CompileError(
                 <<"assignment of ", "float", " to incompatible ",
                   Repr(L[target.id]), " var ", target.id>>, node.value), L)
        ELSE Ok(target.id \o " = " \o NumStr(node.value) \o ";\n", L)
    ELSE IF node.value.t = "Str" THEN
        IF L[target.id] # PyStr(PYTYPE_STR)
        THEN Raise(CompileError(
                 <<"assignment of ", "str", " to incompatible ",
                   Repr(L[target.id]), " var '", target.id, "'">>,
                 node.value), L)
        ELSE Ok(target.id \o " = \"" \o EscapeQuotes(node.value.s) \o "\";\n",
                L)
    ELSE Raise(CompileError(
             <<"Unsupported assignment of type '", "<class '_ast.",
               node.value.t, "'>", "' to '", target.id, "' of type '",
               Repr(L[target.id]), "'">>, node.value), L)

RECURSIVE Visit(_, _, _)
RECURSIVE VisitBlock(_, _, _, _, _)
RECURSIVE VisitArgs(_, _, _, _, _)

\* body_src += self.visit(body_node) for the nodes of a block, from node i on
VisitBlock(c, L, nodes, i, acc) ==
    IF i > Len(nodes) THEN Ok(acc, L)
    ELSE LET r == Visit(c, L, nodes[i])
         IN  IF r.exc # NoExc THEN r
             ELSE IF r.none THEN Raise(StrTypeError, r.locals)
             ELSE VisitBlock(c, r.locals, nodes, i + 1, acc \o r.val)

\* cargs.append(self.visit(arg)) for the arguments of a call; returns the
\* joined arguments
VisitArgs(c, L, args, i, acc) ==
    IF i > Len(args) THEN Ok(Join(acc, ", "), L)
    ELSE LET r == Visit(c, L, args[i])
         IN  IF r.exc # NoExc THEN r
             ELSE IF r.none THEN Raise(StrTypeError, r.locals)
             ELSE VisitArgs(c, r.locals, args, i + 1, Append(acc, r.val))

\* visit_If
VisitIf(c, L, node) ==
    LET test == Visit(c, L, node.test) IN
    IF test.exc # NoExc THEN test
    ELSE LET body == VisitBlock(c, test.locals, node.body, 1, "") IN
    IF body.exc # NoExc THEN body
    ELSE IF Len(node.orelse) > 0
    THEN LET orelse == VisitBlock(c, body.locals, node.orelse, 1, "") IN
         IF orelse.exc # NoExc THEN orelse
         ELSE Ok("if (" \o test.val \o ") {\n" \o body.val \o "\n} else {\n"
                 \o orelse.val \o "\n}", orelse.locals)
    ELSE Ok("if (" \o test.val \o ") {\n" \o body.val \o "\n}", body.locals)

\* the lowering of a string comparison, pyc.py lines 345-370
VisitStrCompare(c, L, node) ==
    IF Len(node.comparators) # 1
    THEN Raise(CompileError(
             <<"string comparisons must be of exactly two items">>, node), L)
    ELSE LET op == node.ops[1] IN
    IF op.t \notin {"Eq", "NotEq", "Lt", "Gt"}
    THEN Raise(CompileError(
             <<"unsupported string comparison op: ", Dump(op)>>, node), L)
    ELSE LET comp == IF op.t = "NotEq" THEN "!=" ELSE "=="
             expect == CASE op.t = "Eq" -> "0"
                         [] op.t = "NotEq" -> "0"
                         [] op.t = "Lt" -> "-1"
                         [] op.t = "Gt" -> "1"
             left == Visit(c, L, node.left)
         IN  IF left.exc # NoExc THEN left
             ELSE LET right == Visit(c, left.locals, node.comparators[1]) IN
             IF right.exc # NoExc THEN right
             ELSE Ok("strcmp(" \o left.val \o ", " \o right.val \o ") "
                     \o comp \o " " \o expect, right.locals)

\* the operator-by-operator translation, pyc.py lines 372-379:
\* parts from position i on
RECURSIVE VisitCompareParts(_, _, _, _, _)
VisitCompareParts(c, L, node, i, parts) ==
    IF i > Len(node.ops) \/ i > Len(node.comparators)
    THEN Ok(Join(parts, " "), L)
    ELSE LET op == VisitCmpOp(node.ops[i], L) IN
         IF op.exc # NoExc THEN op
         ELSE LET cmp == Visit(c, L, node.comparators[i]) IN
         IF cmp.exc # NoExc THEN cmp
         ELSE IF cmp.none THEN Raise(StrTypeError, cmp.locals)
         ELSE VisitCompareParts(c, cmp.locals, node, i + 1,
                                parts \o <<op.val, cmp.val>>)

\* visit_Compare
VisitCompare(c, L, node) ==
    LET left_val == LoadName(c, L, node.left) IN
    IF left_val.exc # NoExc THEN Raise(left_val.exc, L)
    ELSE LET left_type == CType(c, L, left_val.decl) IN
    IF left_type.exc # NoExc THEN Raise(left_type.exc, L)
    ELSE LET chk == CheckComparators(c, L, node, left_type.ty, 1) IN
    IF chk # NoExc THEN Raise(chk, L)
    ELSE IF left_type.ty = BUILTIN_TYPES(PYTYPE_STR)
    THEN VisitStrCompare(c, L, node)
    ELSE LET left == Visit(c, L, node.left) IN
         IF left.exc # NoExc THEN left
         ELSE VisitCompareParts(c, left.locals, node, 1, <<left.val>>)

\* visit_Call
VisitCall(c, L, node) ==
    LET f == LoadName(c, L, node.func) IN
    IF IsLookupError(f.exc)
    THEN Raise(CompileError(
             <<"reference to unknown function '", node.func.id, "'">>, node), L)
    ELSE IF f.exc # NoExc THEN Raise(f.exc, L)
    ELSE IF f.decl.t # "FunctionDef"
    THEN Raise(CompileError(
             <<"call to non-function '", node.func.id, "' of type '",
               Repr(f.decl), "'">>, node), L)
    ELSE LET cargs == VisitArgs(c, L, node.args, 1, <<>>) IN
         IF cargs.exc # NoExc THEN cargs
         ELSE Ok(f.cname \o "(" \o cargs.val \o ")", cargs.locals)

\* visit_Return
VisitReturn(c, L, node) ==
    LET l_type == PyType(c, L, c.node)
        r_type == PyType(c, L, node.value)
    IN  IF l_type.exc # NoExc THEN Raise(l_type.exc, L)
        ELSE IF r_type.exc # NoExc THEN Raise(r_type.exc, L)
        ELSE IF l_type.ty # r_type.ty
        THEN Raise(CompileError(
                 <<"cannot return type '", l_type.ty,
                   "' from function with return type '", r_type.ty, "'">>,
                 node), L)
        ELSE LET v == Visit(c, L, node.value) IN
             IF v.exc # NoExc THEN v
             ELSE Ok("return " \o (IF v.none THEN "None" ELSE v.val) \o ";",
                     v.locals)

\* visit_Expr
VisitExpr(c, L, node) ==
    LET v == Visit(c, L, node.value) IN
    IF v.exc # NoExc THEN v
    ELSE IF v.none THEN Raise(StrTypeError, v.locals)
    ELSE Ok(v.val \o ";", v.locals)

\* visit_AnnAssign; CompilerError is no name of the program
VisitAnnAssign(c, L, node) ==
    IF node.target.id \in DOMAIN L
    THEN Raise(Exception("NameError",
                         <<"name 'CompilerError' is not defined">>), L)
    ELSE LET target_type == CType(c, L, node)
             value_type == CType(c, L, node.value)
         IN
    IF target_type.exc # NoExc THEN Raise(target_type.exc, L)
    ELSE IF value_type.exc # NoExc THEN Raise(value_type.exc, L)
    ELSE IF target_type.ty # value_type.ty
    THEN Raise(CompileError(
             <<"type mismatch in assignment of ", Repr(node.value), " to ",
               Repr(node.target)>>, node.value), L)
    ELSE LET L1 == [n \in DOMAIN L \cup {node.target.id} |->
                       IF n = node.target.id THEN node ELSE L[n]]
             target_src == Visit(c, L1, node.target)
         IN
    IF target_src.exc # NoExc THEN target_src
    ELSE LET value_src == Visit(c, target_src.locals, node.value) IN
    IF value_src.exc # NoExc THEN value_src
    ELSE Ok(target_type.ty \o " " \o target_src.val \o " = " \o value_src.val
            \o ";", value_src.locals)

\* ast.NodeVisitor.visit: dispatch on the class of the node
Visit(c, L, node) ==
    CASE node.t = "If" -> VisitIf(c, L, node)
      [] node.t = "Compare" -> VisitCompare(c, L, node)
      [] node.t = "Call" -> VisitCall(c, L, node)
      [] node.t = "Str" -> VisitStr(node, L)
      [] node.t = "Name" -> VisitName(c, L, node)
      [] node.t = "NameConstant" -> VisitNameConstant(node, L)
      [] node.t = "Num" -> VisitNum(node, L)
      [] node.t = "Return" -> VisitReturn(c, L, node)
      [] node.t = "Expr" -> VisitExpr(c, L, node)
      [] node.t = "Import" -> VisitImport(node, L)
      [] node.t = "Pass" -> VisitPass(node, L)
      [] node.t = "FunctionDef" -> VisitFunctionDef(c, L, node)
      [] node.t = "Assign" -> VisitAssign(c, L, node)
      [] node.t = "AnnAssign" -> VisitAnnAssign(c, L, node)
      [] OTHER -> GenericVisit(node, L)

-----------------------------------------------------------------------------
(* ast.walk *)

\* ast.iter_child_nodes, for the children that are statements
StmtChildren(node) ==
    CASE node.t \in {"Module", "FunctionDef", "While"} -> node.body
      [] node.t = "If" -> node.body \o node.orelse
      [] OTHER -> <<>>

\* ast.walk: breadth first, restricted to the module and its statements
RECURSIVE Walk(_)
Walk(queue) ==
    IF Len(queue) = 0 THEN <<>>
    ELSE <<queue[1]>> \o Walk(Tail(queue) \o StmtChildren(queue[1]))

IsImport(node) == node.t = "Import"
IsReturn(node) == node.t = "Return"

-----------------------------------------------------------------------------
(* The inputs: the files main is given *)

File(name, exists, body) ==
    [name |-> name, exists |-> exists, tree |-> Module(body)]

X == Name("x")
S == Name("s")
Y == Name("y")
INT == Name(PYTYPE_INT)
STR == Name(PYTYPE_STR)
AB == Str(<<"a", "b">>)
CD == Str(<<"c", "d">>)

DeclX == AnnAssign(X, INT, Num(1))
DeclS == AnnAssign(S, STR, AB)

\* statements without a block
SimpleStmts ==
    { DeclX, DeclS,
      AnnAssign(X, INT, AB), AnnAssign(S, STR, Num(1)),
      AnnAssign(X, INT, Y), AnnAssign(Name("print"), INT, Num(2)),
      Assign(<<X>>, Num(2)), Assign(<<X>>, AB),
      Assign(<<S>>, CD), Assign(<<S>>, Num(2)),
      Assign(<<X, S>>, Num(2)), Assign(<<Attribute(X, "a")>>, Num(2)),
      AnnAssign(Name("z"), INT, Float(1, 5)),
      While(NameConstant("True"), <<Pass>>),
      Pass, Expr(Y), Expr(X),
      Expr(Call(Name("print"), <<AB>>)), Expr(Call(Name("print"), <<Y>>)),
      Expr(Call(Y, <<>>)), Expr(Call(Attribute(Name("lib"), "f"), <<>>)),
      Return(Y), Return(Num(1)),
      Import(<<Alias("lib", "")>>), Import(<<Alias("print", "")>>),
      Import(<<Alias("lib", "__name__")>>) }

CmpOps == {"Eq", "NotEq", "Lt", "Gt", "LtE"}

\* the tests of the if statements
Tests ==
    { Compare(l, <<CmpOp(op)>>, <<r>>) :
        l \in {X, S, Y, AB}, op \in CmpOps, r \in {Num(1), CD, Y, S} }
    \cup { Compare(S, <<CmpOp("Lt"), CmpOp("Lt")>>, <<CD, CD>>),
           Compare(X, <<CmpOp("Lt"), CmpOp("Lt")>>, <<Num(1), Num(2)>>),
           Compare(S, <<CmpOp("Eq"), CmpOp("Eq")>>, <<CD, Num(1)>>) }

Blocks ==
    { <<Pass>>, <<Assign(<<X>>, Num(2))>>, <<Expr(Y)>>,
      <<Expr(Call(Name("print"), <<AB>>))>>,
      <<AnnAssign(Name("z"), INT, Num(2))>> }

IfStmts ==
    { If(test, body, orelse) :
        test \in Tests, body \in Blocks,
        orelse \in {<<>>, <<Pass>>, <<Expr(Y)>>} }

RECURSIVE SeqsUpTo(_, _)
SeqsUpTo(pool, n) ==
    IF n = 0 THEN {<<>>}
    ELSE LET shorter == SeqsUpTo(pool, n - 1)
         IN  shorter \cup {Append(q, e) : q \in shorter, e \in pool}

\* the functions a module defines
P == Name("p")
FuncBodies ==
    { <<Pass>>, <<Expr(X)>>, <<Expr(Y)>>,
      <<Expr(Call(Name("f"), <<>>))>>, <<Expr(Call(Name("g"), <<>>))>>,
      <<Return(Num(1))>>, <<Return(AB)>>, <<Return(P)>>,
      <<Return(Call(Name("g"), <<>>))>>,
      <<DeclX, Return(X)>>,
      <<AnnAssign(P, INT, Num(1))>>, <<AnnAssign(Name("f"), INT, Num(1))>>,
      <<AnnAssign(Name("__name__"), INT, Num(1))>>,
      <<AnnAssign(Name("PYMOD_m_DOT_f"), INT, Num(1))>>,
      <<AnnAssign(Name("printf"), INT, Num(1))>>,
      <<If(Compare(P, <<CmpOp("Eq")>>, <<CD>>), <<Pass>>, <<>>)>>,
      <<If(Compare(Name("__name__"), <<CmpOp("Eq")>>, <<CD>>),
           <<Expr(Call(Name("print"), <<P>>))>>, <<>>)>>,
      <<FunctionDef("inner", <<>>, NoneNode, <<Pass>>)>> }

FuncsF ==
    { FunctionDef("f", args, returns, body) :
        args \in {<<>>, <<Arg("p", STR)>>},
        returns \in {NoneNode, INT, STR},
        body \in FuncBodies }

FuncsG ==
    { FunctionDef("g", <<>>, NoneNode, <<Pass>>),
      FunctionDef("g", <<>>, INT, <<Return(Num(1))>>),
      FunctionDef("g", <<Arg("p", STR)>>, STR, <<Return(P)>>),
      FunctionDef("g", <<Arg("q", NoneNode)>>, NoneNode, <<Expr(X)>>),
      [FunctionDef("g", <<>>, NoneNode, <<Pass>>)
          EXCEPT !.decorator_list = <<Name("d")>>] }

\* a declaration inside the body or the else branch of an if statement, and
\* a statement after the block that uses the name
AfterBlockBodies ==
    { <<blk, after>> :
        blk \in { If(NameConstant("True"), <<DeclX>>, <<>>),
                  If(NameConstant("True"),
                     <<Expr(Call(Name("print"), <<AB>>))>>, <<DeclX>>) },
        after \in { Expr(X), Assign(<<X>>, Num(2)), DeclX,
                    AnnAssign(X, STR, AB),
                    If(Compare(X, <<CmpOp("Eq")>>, <<Num(1)>>),
                       <<Expr(Call(Name("print"), <<AB>>))>>, <<>>) } }

ModuleBodies ==
    (SeqsUpTo(SimpleStmts, MaxBody) \ {<<>>})
    \cup AfterBlockBodies
    \cup { <<d, i>> : d \in {DeclX, DeclS}, i \in IfStmts }
    \cup { top \o <<f>> \o gs :
             top \in {<<>>, <<DeclX>>, <<Expr(Call(Name("f"), <<>>))>>,
                      <<If(NameConstant("True"), <<DeclX>>, <<>>)>>},
             f \in FuncsF,
             gs \in {<<>>} \cup {<<g>> : g \in FuncsG} }

\* the modules that programs of several modules are made of
SmallFiles ==
    { File("m", TRUE, <<DeclX>>),
      File("n", TRUE, <<FunctionDef("f", <<>>, INT, <<Return(Num(1))>>)>>),
      File("bad", TRUE, <<DeclX, Expr(Y)>>),
      File("worse", TRUE,
           <<FunctionDef("f", <<>>, NoneNode, <<Pass>>),
             FunctionDef("g", <<>>, NoneNode, <<Assign(<<X>>, Num(2))>>)>>),
      File("a_DOT_b", TRUE, <<FunctionDef("c", <<>>, NoneNode, <<Pass>>)>>),
      File("a", TRUE, <<FunctionDef("b_DOT_c", <<>>, NoneNode, <<Pass>>)>>),
      File("gone", FALSE, <<>>) }

Programs ==
    { <<File("m", TRUE, body)>> : body \in ModuleBodies }
    \cup { q \in SeqsUpTo(SmallFiles, MaxModules) : Len(q) >= 2 }

-----------------------------------------------------------------------------
(* The run of main *)

NoCompilers == <<>>

Init ==
    /\ input_modules \in Programs
    /\ mi = 1
    /\ pc = "main_loop"
    /\ src = ""
    /\ msrc = ""
    /\ globals = <<>>
    /\ func_compilers = NoCompilers
    /\ fi = 0
    /\ si = 0
    /\ fsrc = ""
    /\ stdout = ""
    /\ exc = NoExc

\* an exception leaves main: nothing is printed, the process ends
Propagate(e) ==
    /\ exc' = e
    /\ pc' = "raised"

cur_file == input_modules[mi]
module_name == cur_file.name
source_filename == cur_file.name \o ".py"
dunder_name == IF mi = 1 THEN "__main__" ELSE module_name

\* main, pyc.py lines 648-667, and ModuleCompiler.__init__: open and parse the
\* file of the next module and build its compiler
MainOpenModule ==
    /\ pc = "main_loop"
    /\ mi <= Len(input_modules)
    /\ IF ~cur_file.exists
       THEN /\ Propagate(Exception("FileNotFoundError", <<source_filename>>))
            /\ UNCHANGED <<globals, msrc>>
       ELSE /\ globals' = [n \in {"__name__"} |->
                              AnnAssign(NoneNode, Name(PYTYPE_STR), NoneNode)]
            /\ msrc' = ""
            /\ pc' = "imports"
            /\ UNCHANGED exc
    /\ UNCHANGED <<input_modules, mi, src, func_compilers, fi, si, fsrc, stdout>>

\* ModuleCompiler.compile, pyc.py lines 569-605: the import statements of the
\* module. The first alias met ends the compilation: its name is taken, its
\* file is missing (the working directory is the environment's), or the
\* append to the undefined imported_modules fails.
ModuleScanImports ==
    /\ pc = "imports"
    /\ \E file_exists \in BOOLEAN :
       LET imports == SelectSeq(Walk(<<cur_file.tree>>), IsImport)
       IN  IF Len(imports) = 0 \/ Len(imports[1].names) = 0
           THEN pc' = "initial_source" /\ UNCHANGED exc
           ELSE LET node == imports[1]
                    alias == node.names[1]
                    asname == IF alias.asname # "" THEN alias.asname
                              ELSE alias.name
                IN  IF asname \in DOMAIN globals
                    THEN Propagate(CompileError(
                             <<"cannot import '", asname, "' multiple times">>,
                             node))
                    ELSE IF ~file_exists
                    THEN Propagate(Exception("FileNotFoundError",
                                             <<alias.name, ".py">>))
                    ELSE Propagate(Exception("NameError",
                             <<"name 'imported_modules' is not defined">>))
    /\ UNCHANGED <<input_modules, mi, src, msrc, globals, func_compilers, fi,
                   si, fsrc, stdout>>

\* ModuleCompiler._initial_module_source
InitialModuleSource ==
    Join(<<"#include <stdint.h>",
           "#include <string.h>",
           "#include <stdbool.h>",
           "#define " \o MOD_PREFIX \o module_name \o DOT \o "__name__ \""
               \o dunder_name \o "\"">>, "\n") \o "\n\n"

\* ModuleCompiler.compile, pyc.py line 608
ModuleInitialSource ==
    /\ pc = "initial_source"
    /\ msrc' = msrc \o InitialModuleSource
    /\ pc' = "build"
    /\ UNCHANGED <<input_modules, mi, src, globals, func_compilers, fi, si,
                   fsrc, stdout, exc>>

FunctionCompiler(node) == [node |-> node, locals |-> <<>>]

IsFunctionDef(node) == node.t = "FunctionDef"

\* a ModuleCompiler that forgets to expose its functions as globals
RegisterNothing(g, defs) == g

\* self.globals[mod_node.name] = mod_node for the function definitions of the
\* module's body
RegisterFunctions(g, defs) ==
    [n \in DOMAIN g \cup {defs[i].name : i \in 1..Len(defs)} |->
        IF \E i \in 1..Len(defs) : defs[i].name = n
        THEN defs[CHOOSE i \in 1..Len(defs) :
                    /\ defs[i].name = n
                    /\ \A j \in (i + 1)..Len(defs) : defs[j].name # n]
        ELSE g[n]]

\* ModuleCompiler.compile, pyc.py lines 610-623: a compiler for the top-level
\* function and one for each function defined in the module's body
ModuleBuildCompilers ==
    /\ pc = "build"
    /\ LET defs == SelectSeq(cur_file.tree.body, IsFunctionDef)
       IN  /\ globals' = RegisterFunctions(globals, defs)
           /\ func_compilers' =
                  <<FunctionCompiler(cur_file.tree)>>
                  \o [i \in 1..Len(defs) |-> FunctionCompiler(defs[i])]
    /\ fi' = 1
    /\ pc' = "fn_begin"
    /\ UNCHANGED <<input_modules, mi, src, msrc, si, fsrc, stdout, exc>>

self == func_compilers[fi]

\* ModuleCompiler.globals at the moment func_compilers[i] was built, pyc.py
\* lines 613-622: the compiler of the top-level function is built before any
\* function is registered, the compiler of a function after the registration
\* of the functions up to it
GlobalsWhenBuilt(i) ==
    LET defs == SelectSeq(cur_file.tree.body, IsFunctionDef)
    IN  RegisterFunctions([n \in {"__name__"} |-> globals[n]],
                          SubSeq(defs, 1, i - 1))

\* a function compiler that resolves against a copy of the module's globals
\* taken when it was built
ctx_snapshot == Ctx(module_name, GlobalsWhenBuilt(fi), self.node)

\* self.module_name, self.module_compiler.globals and self.node: the globals
\* are read through the reference to the module compiler at each lookup
ctx == Ctx(module_name, globals, self.node)

\* except CompileError in ModuleCompiler.compile, pyc.py lines 629-631
WithFile(e) ==
    IF e.cls = "CompileError" THEN [e EXCEPT !.file = source_filename] ELSE e

\* self.locals[arg.arg] = arg for the parameters
RECURSIVE FillLocals(_, _, _)
FillLocals(L, args, i) ==
    IF i > Len(args) THEN L
    ELSE FillLocals([n \in DOMAIN L \cup {args[i].arg} |->
                        IF n = args[i].arg THEN args[i] ELSE L[n]],
                    args, i + 1)

SetLocals(L) == [func_compilers EXCEPT ![fi].locals = L]

\* FunctionCompiler.compile, pyc.py lines 140-158
FnBegin ==
    /\ pc = "fn_begin"
    /\ fi <= Len(func_compilers)
    /\ IF self.node.t = "FunctionDef" /\ Len(self.node.decorator_list) > 0
       THEN /\ Propagate(WithFile(CompileError(
                    <<"function decorators are not supported">>,
                    self.node.decorator_list[1])))
            /\ UNCHANGED <<func_compilers, si, fsrc>>
       ELSE /\ func_compilers' =
                   IF self.node.t = "FunctionDef"
                   THEN SetLocals(FillLocals(self.locals, self.node.args, 1))
                   ELSE func_compilers
            /\ fsrc' = ""
            /\ si' = 1
            /\ pc' = "fn_body"
            /\ UNCHANGED exc
    /\ UNCHANGED <<input_modules, mi, src, msrc, globals, fi, stdout>>

\* FunctionCompiler.compile, pyc.py lines 159-163: one node of the body
FnVisitBody ==
    /\ pc = "fn_body"
    /\ si <= Len(self.node.body)
    /\ LET r == Visit(ctx, self.locals, self.node.body[si])
       IN  /\ func_compilers' = SetLocals(r.locals)
           /\ IF r.exc # NoExc
              THEN Propagate(WithFile(r.exc)) /\ UNCHANGED <<si, fsrc>>
              ELSE /\ fsrc' = IF ~r.none /\ r.val # ""
                              THEN fsrc \o r.val \o "\n" ELSE fsrc
                   /\ si' = si + 1
                   /\ UNCHANGED <<pc, exc>>
    /\ UNCHANGED <<input_modules, mi, src, msrc, globals, fi, stdout>>

\* FunctionCompiler._fn_ret_ctype; fn_name is no name of the program
FnRetCType(c, L) ==
    IF c.node.returns = NoneNode
    THEN IF Len(SelectSeq(Walk(<<c.node>>), IsReturn)) > 0
         THEN Untyped(CompileError(
                  <<"missing return type annotation for function '",
                    c.node.name, "'">>, c.node))
         ELSE Typed(BUILTIN_TYPES(PYTYPE_NONE))
    ELSE LET r == CType(c, L, c.node.returns)
         IN  IF IsLookupError(r.exc)
             THEN Untyped(Exception("NameError",
                                    <<"name 'fn_name' is not defined">>))
             ELSE r

\* the C parameters, pyc.py lines 185-209: c_args from parameter i on
RECURSIVE CArgs(_, _, _, _)
CArgs(c, L, i, c_args) ==
    LET args == c.node.args IN
    IF i > Len(args) THEN Ok(Join(c_args, ", "), L)
    ELSE LET arg == args[i] IN
    IF arg.annotation = NoneNode
    THEN Raise(CompileError(
             <<"missing type annotation for parameter '", arg.arg, "'">>,
             arg), L)
    ELSE LET arg_ctype == CType(c, L, arg.annotation) IN
    IF IsLookupError(arg_ctype.exc)
    THEN Raise(CompileError(
             <<"unknown type '", Dump(arg.annotation), "' for argument '",
               arg.arg, "'">>, arg), L)
    ELSE IF arg_ctype.exc # NoExc THEN Raise(arg_ctype.exc, L)
    ELSE CArgs(c, L, i + 1, Append(c_args, arg_ctype.ty \o " " \o arg.arg))

\* the return of FunctionCompiler.compile, pyc.py lines 218-219, once the
\* return type, the parameters and the name of the C function are known; an
\* exception of one of them leaves compile in the order of the code
FormatFunction(L, ret_type, args_src, fn_cname, body) ==
    IF ret_type.exc # NoExc THEN Raise(ret_type.exc, L)
    ELSE IF args_src.exc # NoExc THEN args_src
    ELSE IF fn_cname.exc # NoExc THEN Raise(fn_cname.exc, L)
    ELSE Ok(ret_type.ty \o " " \o fn_cname.cname \o "(" \o args_src.val
            \o ") {\n" \o body \o "}\n", L)

\* the C function of a compiled body, pyc.py lines 165-219
FunctionSource(c, L, body) ==
    FormatFunction(
        L,
        IF c.node.t # "Module" THEN FnRetCType(c, L)
        ELSE Typed(BUILTIN_TYPES(PYTYPE_INT)),
        IF c.node.t = "Module" THEN Ok("", L) ELSE CArgs(c, L, 1, <<>>),
        IF c.node.t = "Module"
        THEN Resolved(MOD_PREFIX \o c.module_name \o MOD_INIT_SUFFIX, c.node)
        ELSE LoadName(c, L, c.node),
        body)

\* FunctionCompiler.compile, pyc.py lines 165-219, and the loop of
\* ModuleCompiler.compile, pyc.py lines 627-628
FnFinish ==
    /\ pc = "fn_body"
    /\ si > Len(self.node.body)
    /\ LET r == FunctionSource(ctx, self.locals, fsrc)
       IN  IF r.exc # NoExc
           THEN Propagate(WithFile(r.exc)) /\ UNCHANGED <<msrc, fi>>
           ELSE /\ msrc' = msrc \o r.val \o "\n"
                /\ fi' = fi + 1
                /\ pc' = "fn_begin"
                /\ UNCHANGED exc
    /\ UNCHANGED <<input_modules, mi, src, globals, func_compilers, si, fsrc,
                   stdout>>

\* ModuleCompiler.compile returns, pyc.py line 634, and main adds the module's
\* source to the project's, line 670
ModuleReturn ==
    /\ pc = "fn_begin"
    /\ fi > Len(func_compilers)
    /\ src' = src \o msrc
    /\ mi' = mi + 1
    /\ pc' = "main_loop"
    /\ UNCHANGED <<input_modules, msrc, globals, func_compilers, fi, si, fsrc,
                   stdout, exc>>

\* the C main function, pyc.py lines 674-675
MainSource ==
    "int main() {return " \o MOD_PREFIX \o input_modules[1].name
        \o MOD_INIT_SUFFIX \o "();}\n"

\* a main that prints the project source before the last module is compiled
MainEmitBeforeLast ==
    /\ pc = "main_loop"
    /\ mi >= Len(input_modules)
    /\ stdout = ""
    /\ stdout' = src \o "int main() {}\n"
    /\ pc' = IF mi > Len(input_modules) THEN "done" ELSE pc
    /\ UNCHANGED <<input_modules, mi, src, msrc, globals, func_compilers, fi,
                   si, fsrc, exc>>

\* main, pyc.py lines 672-678: after the last module
MainEmit ==
    /\ pc = "main_loop"
    /\ mi > Len(input_modules)
    /\ src' = src \o MainSource
    /\ stdout' = src' \o "\n"
    /\ pc' = "done"
    /\ UNCHANGED <<input_modules, mi, msrc, globals, func_compilers, fi, si,
                   fsrc, exc>>

Next ==
    \/ MainOpenModule
    \/ ModuleScanImports
    \/ ModuleInitialSource
    \/ ModuleBuildCompilers
    \/ FnBegin
    \/ FnVisitBody
    \/ FnFinish
    \/ ModuleReturn
    \/ MainEmit

Spec == Init /\ [][Next]_vars

-----------------------------------------------------------------------------
(* The claims.  The error taxonomy of the specification is read off the    *)
(* message a CompileError is built with.                                    *)

InBody == pc = "fn_body" /\ si <= Len(self.node.body)
cur == self.node.body[si]

IsCompileError(e) == e.cls = "CompileError"

DuplicateDeclaration(e) ==
    /\ IsCompileError(e)
    /\ e.msg[1] \in {"Local var '", "cannot import '"}

UnresolvedReference(e) ==
    /\ IsCompileError(e)
    /\ e.msg[1] \in {"reference to unknown function '",
                     "Cannot assign to undeclared local var '"}

TypeMismatch(e) ==
    /\ IsCompileError(e)
    /\ e.msg[1] \in {"type mismatch in assignment of ", "assignment of ",
                     "mismatched types in comparison", "cannot return type '"}

UnsupportedConstruct(e) ==
    /\ IsCompileError(e)
    /\ e.msg[1] \in {"Use of unsupported feature: multiple assignment",
                     "Use of unsupported feature: attribute assignment",
                     "string comparisons must be of exactly two items",
                     "unsupported string comparison op: ",
                     "Unsupported ast node: ",
                     "Unsupported assignment of type '",
                     "Inner functions are not supported",
                     "function decorators are not supported",
                     "could not compile constant '"}

\* the message of e names the type ty
NamesType(e, ty) == \E i \in 1..Len(e.msg) : e.msg[i] = ty

AllNames ==
    {"x", "s", "y", "z", "p", "q", "f", "g", "d", "print", "lib", "inner",
     "__name__"}

IsLiteral(e) == e.t \in {"Num", "Str"}
LitType(e) == IF e.t = "Num" THEN PYTYPE_INT ELSE PYTYPE_STR

\* the type a name was declared with, by an annotated declaration or as a
\* parameter of the function
DeclaredType(decl) ==
    IF decl.t \in {"AnnAssign", "arg"} /\ decl.annotation.t = "Name"
    THEN decl.annotation.id ELSE PyNone

Compiles(node) == Visit(ctx, self.locals, node).exc = NoExc

new_locals == func_compilers'[fi].locals

\* C1: once a name is declared in a scope (by an annotated declaration or as
\* a parameter), a second annotated declaration of it in that scope fails
\* with a DuplicateDeclaration compile error and leaves the bindings as they
\* were; declaring a name that only the module scope or the builtin table
\* binds succeeds and shadows the outer binding.
C1_DuplicateDeclaration ==
    [][(InBody /\ cur.t = "AnnAssign") =>
         /\ (cur.target.id \in DOMAIN self.locals) =>
               (DuplicateDeclaration(exc') /\ new_locals = self.locals)
         /\ ( /\ cur.target.id \notin DOMAIN self.locals
              /\ cur.target.id \in DOMAIN globals \cup BUILTIN_FUNC_NAMES
              /\ IsLiteral(cur.value)
              /\ cur.annotation = Name(LitType(cur.value)) ) =>
               ( /\ exc' = NoExc
                 /\ cur.target.id \in DOMAIN new_locals
                 /\ LookupScopes(ctx, new_locals, cur.target.id)
                      = Resolved(cur.target.id, cur) )
      ]_vars

Unbound(n) ==
    /\ n \notin DOMAIN self.locals
    /\ n \notin DOMAIN globals
    /\ n \notin BUILTIN_FUNC_NAMES

\* stmt refers to the unbound name n in one of the positions of claim C2, and
\* what the compiler visits before that reference compiles
RefersUnbound(stmt, n) ==
    \/ stmt = Expr(Name(n))
    \/ stmt = Return(Name(n))
    \/ /\ stmt.t = "Expr"
       /\ stmt.value.t = "Call"
       /\ \/ stmt.value.func = Name(n)
          \/ /\ stmt.value.args = <<Name(n)>>
             /\ LoadName(ctx, self.locals, stmt.value.func).exc = NoExc
             /\ LoadName(ctx, self.locals, stmt.value.func).decl.t
                  = "FunctionDef"
    \/ /\ stmt.t = "If"
       /\ stmt.test.t = "Compare"
       /\ \/ stmt.test.left = Name(n)
          \/ /\ stmt.test.comparators[1] = Name(n)
             /\ LET l == LoadName(ctx, self.locals, stmt.test.left)
                IN  /\ l.exc = NoExc
                    /\ CType(ctx, self.locals, l.decl).exc = NoExc
    \/ /\ stmt.t = "If"
       /\ LET test == Visit(ctx, self.locals, stmt.test)
              body == VisitBlock(ctx, test.locals, stmt.body, 1, "")
          IN  /\ test.exc = NoExc
              /\ \/ stmt.body[1] = Expr(Name(n))
                 \/ /\ body.exc = NoExc
                    /\ Len(stmt.orelse) > 0
                    /\ stmt.orelse[1] = Expr(Name(n))

\* C2: a reference to a name bound in no reachable scope fails with an
\* UnresolvedReference compile error, wherever the reference stands: a bare
\* name, a callee, a call argument, either side of a comparison, a return
\* value, the body or the else branch of an if.
C2_UnresolvedReference ==
    [][(InBody /\ \E n \in AllNames : Unbound(n) /\ RefersUnbound(cur, n))
         => UnresolvedReference(exc')]_vars

\* stmt gives a variable declared int a str literal or one declared str an
\* int literal, in its declaration or in a later plain assignment
MistypedAssignment(stmt) ==
    \/ /\ stmt.t = "AnnAssign"
       /\ stmt.target.id \notin DOMAIN self.locals
       /\ stmt.annotation \in {INT, STR}
       /\ IsLiteral(stmt.value)
       /\ LitType(stmt.value) # stmt.annotation.id
    \/ /\ stmt.t = "Assign"
       /\ Len(stmt.targets) = 1
       /\ stmt.targets[1].t = "Name"
       /\ stmt.targets[1].id \in DOMAIN self.locals
       /\ DeclaredType(self.locals[stmt.targets[1].id])
            \in {PYTYPE_INT, PYTYPE_STR}
       /\ IsLiteral(stmt.value)
       /\ LitType(stmt.value) # DeclaredType(self.locals[stmt.targets[1].id])

\* C3: assigning a str literal to an int variable or an int literal to a str
\* variable fails with a TypeMismatch compile error whose message names both
\* types, in the declaration and in a later plain assignment.
C3_TypeMismatchNamesTypes ==
    [][(InBody /\ MistypedAssignment(cur)) =>
         ( /\ TypeMismatch(exc')
           /\ NamesType(exc', PYTYPE_INT)
           /\ NamesType(exc', PYTYPE_STR) )]_vars

\* stmt assigns a declared variable a literal of its declared type
WellTypedReassignment(stmt) ==
    /\ stmt.t = "Assign"
    /\ Len(stmt.targets) = 1
    /\ stmt.targets[1].t = "Name"
    /\ stmt.targets[1].id \in DOMAIN self.locals
    /\ IsLiteral(stmt.value)
    /\ LitType(stmt.value) = DeclaredType(self.locals[stmt.targets[1].id])

ScenarioA ==
    <<File("m", TRUE,
           <<DeclX,
             If(Compare(X, <<CmpOp("Eq")>>, <<Num(1)>>),
                <<Assign(<<X>>, Num(2))>>, <<>>)>>)>>

\* C4: a plain assignment of a literal of type T to a variable declared with
\* type T compiles to one assignment statement and leaves the bindings as
\* they were; x: int = 1 followed by if x == 1: x = 2 compiles.
C4_Reassignment ==
    /\ [][(InBody /\ WellTypedReassignment(cur)) =>
            ( /\ exc' = NoExc
              /\ new_locals = self.locals
              /\ fsrc' = fsrc \o cur.targets[1].id \o " = "
                           \o (IF cur.value.t = "Num" THEN NumStr(cur.value)
                               ELSE "\"" \o EscapeQuotes(cur.value.s) \o "\"")
                           \o ";\n\n" )]_vars
    /\ [](input_modules = ScenarioA =>
            (pc # "raised" /\ (pc = "done" => stdout # "")))

ScenarioB ==
    <<File("m", TRUE,
           <<DeclS,
             If(Compare(S, <<CmpOp("Eq")>>, <<CD>>), <<Pass>>, <<>>)>>)>>

\* the run ended in the visit of a body node
FailedInBody ==
    /\ pc = "raised"
    /\ fi \in 1..Len(func_compilers)
    /\ si \in 1..Len(self.node.body)

\* C5: pass lowers to an explicit empty-statement marker and is never
\* dropped, in a function body, an if body or an else branch; s: str = "ab"
\* followed by if s == "cd": pass compiles.
C5_PassEmitsMarker ==
    /\ input_modules = ScenarioB => pc # "raised"
    /\ ~( /\ FailedInBody
          /\ exc.cls = "TypeError"
          /\ cur.t = "If"
          /\ cur.body = <<Pass>>
          /\ cur.orelse \in {<<>>, <<Pass>>} )
    /\ (pc = "done" /\ input_modules = <<File("m", TRUE, <<Pass>>)>>) =>
           stdout # InitialModuleSource \o "int32_t PYMOD_m_INIT() {\n}\n\n"
                    \o MainSource \o "\n"

\* e is an operand of type str: a str literal, or a name declared str by an
\* annotated declaration or as a parameter
StringTyped(e) ==
    \/ e.t = "Str"
    \/ /\ e.t = "Name"
       /\ LET r == LoadName(ctx, self.locals, e)
          IN  r.exc = NoExc /\ DeclaredType(r.decl) = PYTYPE_STR

StringComparison(node) ==
    /\ node.t = "Compare"
    /\ StringTyped(node.left)
    /\ \A i \in 1..Len(node.comparators) : StringTyped(node.comparators[i])

\* C6: a comparison of strings with one comparator lowers to a three-way
\* compare of the two operands tested against 0 (== and !=), -1 (<) or 1 (>);
\* with more than one comparator it fails with an UnsupportedConstruct
\* compile error, with any other operator it fails with a compile error.
C6_StringCompare ==
    (InBody /\ cur.t = "If" /\ StringComparison(cur.test)) =>
        LET node == cur.test
            r == Visit(ctx, self.locals, node)
            op == node.ops[1].t
        IN  IF Len(node.comparators) > 1 THEN UnsupportedConstruct(r.exc)
            ELSE IF op \notin {"Eq", "NotEq", "Lt", "Gt"}
            THEN IsCompileError(r.exc)
            ELSE /\ r.exc = NoExc
                 /\ r.val = "strcmp("
                      \o Visit(ctx, self.locals, node.left).val \o ", "
                      \o Visit(ctx, self.locals, node.comparators[1]).val
                      \o ") " \o (IF op = "NotEq" THEN "!=" ELSE "==") \o " "
                      \o (CASE op \in {"Eq", "NotEq"} -> "0"
                            [] op = "Lt" -> "-1"
                            [] op = "Gt" -> "1")

\* C7: whatever fails, in the first or a later module, in the init function
\* or a later function, the compilation stops there: nothing more is compiled
\* and nothing is printed; text is printed only once every module compiled.
C7_FailFastNoOutput ==
    /\ [](exc # NoExc => (pc = "raised" /\ stdout = ""))
    /\ [](stdout # "" =>
            (pc = "done" /\ exc = NoExc /\ mi > Len(input_modules)))
    /\ [][exc # NoExc => UNCHANGED vars]_vars

\* a later function of a later module failed, after text had been produced
C7_Witness ==
    /\ pc = "raised"
    /\ exc.cls = "CompileError"
    /\ mi = 2
    /\ fi = 3
    /\ src # ""
    /\ stdout = ""

IsAnnAssign(node) == node.t = "AnnAssign"
NotFunctionDef(node) == node.t # "FunctionDef"

\* the variables declared at module level, nested in control flow or not
ModuleLevelVars(tree) ==
    LET decls == SelectSeq(Walk(SelectSeq(tree.body, NotFunctionDef)),
                           IsAnnAssign)
    IN  {decls[i].target.id : i \in 1..Len(decls)}

\* the names a function declares itself: its parameters and the annotated
\* declarations of its body
OwnNames(fn) ==
    LET decls == SelectSeq(Walk(fn.body), IsAnnAssign)
    IN  {fn.args[i].arg : i \in 1..Len(fn.args)}
        \cup {decls[i].target.id : i \in 1..Len(decls)}

TopLevelDefs == SelectSeq(cur_file.tree.body, IsFunctionDef)
Running == pc \in {"fn_begin", "fn_body"}
ctx_of(i) == Ctx(module_name, globals, func_compilers[i].node)
Mangled(n) == MOD_PREFIX \o module_name \o DOT \o n

BridgeImport(body) ==
    \E n \in BUILTIN_FUNC_NAMES :
        body = <<Import(<<Alias(n, "")>>), Expr(Call(Name(n), <<AB>>))>>

\* C9: importing a name bound in the builtin registry and calling a symbol it
\* exposes compiles, the call to a call of the registry's target symbol, and
\* the import adds no text to the output.
C9_BridgeImportCompiles ==
    (Len(input_modules) = 1 /\ BridgeImport(input_modules[1].tree.body)) =>
        /\ pc # "raised"
        /\ pc = "done" =>
               stdout = InitialModuleSource
                        \o "int32_t PYMOD_m_INIT() {\n"
                        \o "printf((const char[]){0x61, 0x62, 0x0});\n}\n\n"
                        \o MainSource \o "\n"

\* C10: an assignment with several targets and an assignment to an attribute
\* each fail with an UnsupportedConstruct compile error that carries the
\* position of the statement, and nothing is printed.
C10_UnsupportedAssignment ==
    [][(InBody /\ cur.t = "Assign"
          /\ (Len(cur.targets) > 1 \/ cur.targets[1].t = "Attribute")) =>
         ( /\ UnsupportedConstruct(exc')
           /\ exc'.positioned
           /\ exc'.node = cur
           /\ stdout' = "" )]_vars

\* the function (or module) whose body is being compiled declares a return
\* type: a module always returns int
HasReturnType == self.node.t = "Module" \/ self.node.returns # NoneNode
ReturnType ==
    IF self.node.t = "Module" THEN PYTYPE_INT ELSE self.node.returns.id

\* a call of a function defined at the top level of the module
CallsDefined(e) ==
    /\ e.t = "Call"
    /\ e.func.t = "Name"
    /\ e.func.id \notin DOMAIN self.locals
    /\ e.func.id \in DOMAIN globals
    /\ globals[e.func.id].t = "FunctionDef"

\* e is a literal, a reference to a declared variable or to a parameter, or
\* a call
Returnable(e) ==
    \/ IsLiteral(e)
    \/ e.t = "Name" /\ e.id \in DOMAIN self.locals
    \/ CallsDefined(e)

\* the type of a returnable expression, read off the declarations
InferredType(e) ==
    IF IsLiteral(e) THEN LitType(e)
    ELSE IF e.t = "Name" THEN DeclaredType(self.locals[e.id])
    ELSE IF globals[e.func.id].returns = NoneNode THEN PyNone
    ELSE globals[e.func.id].returns.id

\* C11: in a function with declared return type T, a return of a literal, of
\* a declared variable, of a parameter or of a call fails with a TypeMismatch
\* compile error exactly when the type of the returned expression differs
\* from T, and otherwise emits a return of the lowered expression; the
\* module-init function always has the return type int.
C11_ReturnTypeChecked ==
    /\ [][(InBody /\ cur.t = "Return" /\ HasReturnType
             /\ Returnable(cur.value)) =>
            IF InferredType(cur.value) # ReturnType
            THEN TypeMismatch(exc')
            ELSE /\ exc' = NoExc
                 /\ fsrc' = fsrc \o "return "
                              \o Visit(ctx, self.locals, cur.value).val
                              \o ";\n"
         ]_vars
    /\ [][(pc = "fn_body" /\ self.node.t = "Module" /\ exc' = NoExc
             /\ si > Len(self.node.body)) =>
            msrc' = msrc \o CTYPE_INT \o " " \o MOD_PREFIX \o module_name
                      \o MOD_INIT_SUFFIX \o "() {\n" \o fsrc \o "}\n\n"
         ]_vars

DeclaredInBlock(node) ==
    LET decls == SelectSeq(Walk(node.body \o node.orelse), IsAnnAssign)
    IN  {decls[i].target.id : i \in 1..Len(decls)}

\* the statement before the current one is an if statement that compiled
AfterBlock == InBody /\ si > 1 /\ self.node.body[si - 1].t = "If"
BlockNames == DeclaredInBlock(self.node.body[si - 1])

\* C13: the body and the else branch of an if statement are compiled against
\* the locals of the enclosing statement sequence: a name declared in the
\* block is bound after the block, a later statement can read it and assign
\* to it, and declaring it again after the block fails with a
\* DuplicateDeclaration compile error.
C13_BlockSharesScope ==
    /\ [][(InBody /\ cur.t = "If" /\ exc' = NoExc) =>
            \A n \in DeclaredInBlock(cur) :
                /\ n \in DOMAIN new_locals
                /\ new_locals[n].t = "AnnAssign"
         ]_vars
    /\ [][(AfterBlock /\ cur.t = "Expr" /\ cur.value.t = "Name"
             /\ cur.value.id \in BlockNames) =>
            /\ exc' = NoExc
            /\ fsrc' = fsrc \o cur.value.id \o ";\n"
         ]_vars
    /\ [][(AfterBlock /\ cur.t = "Assign" /\ Len(cur.targets) = 1
             /\ cur.targets[1].t = "Name" /\ cur.targets[1].id \in BlockNames
             /\ IsLiteral(cur.value)
             /\ LitType(cur.value)
                  = DeclaredType(self.locals[cur.targets[1].id])) =>
            /\ exc' = NoExc
            /\ fsrc' = fsrc \o cur.targets[1].id \o " = "
                         \o Visit(ctx, self.locals, cur.value).val \o ";\n"
         ]_vars
    /\ [][(AfterBlock /\ cur.t = "AnnAssign"
             /\ cur.target.id \in BlockNames) =>
            /\ DuplicateDeclaration(exc')
            /\ new_locals = self.locals
         ]_vars

\* the module-level symbols of the program, one for every name in the globals
\* of a module, and the init function of every module
ModuleSymbols ==
    UNION { LET f == input_modules[k]
                defs == SelectSeq(f.tree.body, IsFunctionDef)
            IN  { [kind |-> "global", module |-> f.name, name |-> n] :
                    n \in {"__name__"}
                          \cup {defs[i].name : i \in 1..Len(defs)} }
        : k \in 1..Len(input_modules) }
InitSymbols ==
    { [kind |-> "init", module |-> input_modules[k].name, name |-> ""] :
        k \in 1..Len(input_modules) }

\* the identifier a symbol gets in the C source: that of _load_name for a
\* global of the module, that of FunctionCompiler.compile for an init function
TargetIdentifier(s) ==
    IF s.kind = "init" THEN MOD_PREFIX \o s.module \o MOD_INIT_SUFFIX
    ELSE LookupScopes(Ctx(s.module, [n \in {s.name} |-> NoneNode], NoneNode),
                      <<>>, s.name).cname
BuiltinIdentifiers == {BUILTIN_FUNCS(n).name : n \in BUILTIN_FUNC_NAMES}

\* C14: in a program that compiled, two distinct symbols (module-level
\* symbols of distinct (module, name) pairs, and the init functions of the
\* modules) never have the same target identifier, and no local or parameter
\* name of a function is the target identifier of a module-level symbol, of
\* an init function or of a builtin.
C14_ManglingCollisionFree ==
    /\ pc = "done" =>
          \A s1, s2 \in ModuleSymbols \cup InitSymbols :
              s1 # s2 => TargetIdentifier(s1) # TargetIdentifier(s2)
    /\ pc = "done" =>
          \A i \in 1..Len(func_compilers) :
              \A n \in DOMAIN func_compilers[i].locals :
                  n \notin {TargetIdentifier(s) :
                              s \in ModuleSymbols \cup InitSymbols}
                           \cup BuiltinIdentifiers

====
